---- MODULE Spec2Model ----
(***************************************************************************)
(* A model of the bundler fuzzing harness of src/src/index.ts.             *)
(*                                                                         *)
(* Two specifications share this module:                                   *)
(*   SpecGen  the planning phase of one Trial (seedInitialModules,         *)
(*            addOriginalExports, addReExports, addSideEffects,            *)
(*            chooseEntrypoints), one step per loop iteration;             *)
(*   Spec     the fleet: the grinderThread workers, each running           *)
(*            Trial.run() from one suspension point (await) to the next,   *)
(*            the shared repros directory, the builds counter and the      *)
(*            reporting loop.                                              *)
(***************************************************************************)
EXTENDS Integers, Sequences, FiniteSets, TLC

VARIABLES
    \* ---- one Trial being planned (SpecGen) ----
    modules,                \* Trial.modules: sequence of TrialModule records
    entrypoints,            \* Trial.entrypoints
    internalIdIncrementor,  \* Trial.internalIdIncrementor
    gpc,                    \* which pass of phase 1 is running
    gmod,                   \* index of the module of the running for-of loop
    gtimes,                 \* iterations left of the inner repeat(random(..))
    lastAttempt,            \* what the last re-export/side-effect attempt did
    analysis,               \* analyzeSideEffects: traced, effects and its call stack
    \* ---- categorizeError applied to one text (SpecClassify) ----
    errFragments,           \* the fragments the text `${err}` is made of
    errCategory,            \* what categorizeError returned for it
    \* ---- the fleet (Spec) ----
    pc,                     \* per worker: the await it is suspended at
    trial,                  \* per worker: the locals of its running Trial.run()
    repros,                 \* the ./repros directory: category -> document
    builds,                 \* the shared counter
    totalBuilds,            \* the reporting loop's running total
    started,                \* number of Trials constructed so far
    offered,                \* history: category -> documents offered so far
    raced,                  \* history: category -> a recording overlapped another
    completed               \* history: number of trials whose run() returned

genVars == <<modules, entrypoints, internalIdIncrementor, gpc, gmod, gtimes, lastAttempt,
            analysis>>
classifyVars == <<errFragments, errCategory>>
fleetVars == <<pc, trial, repros, builds, totalBuilds, started, offered, raced, completed>>
vars == <<modules, entrypoints, internalIdIncrementor, gpc, gmod, gtimes, lastAttempt,
          analysis, errFragments, errCategory, pc, trial, repros, builds, totalBuilds, started, offered, raced, completed>>

(***************************************************************************)
(* Bounds of the model and constants of the program.                       *)
(***************************************************************************)
MinModules == 2
MaxModules == 3
MinOriginals == 1
MaxOriginals == 1
MaxReExports == 1
MaxSideEffects == 1
MaxEntrypoints == 3
\* the fleet: 64 workers in the program
NumWorkers == 2
MaxTrials == 3
MaxLengthSteps == 2
\* calls and returns one run of analyzeSideEffects is followed for
MaxAnalyzeSteps == 40
\* fragments an error text is made of
MaxFragments == 3

(***************************************************************************)
(* Text helpers: strings are JavaScript strings, compared and searched     *)
(* character by character.                                                 *)
(***************************************************************************)
Base36Digits == "0123456789abcdefghijklmnopqrstuvwxyz"

RECURSIVE toString36(_)
toString36(n) ==
    IF n < 36
    THEN SubSeq(Base36Digits, n + 1, n + 1)
    ELSE toString36(n \div 36) \o SubSeq(Base36Digits, (n % 36) + 1, (n % 36) + 1)

\* text.includes(part)
includes(text, part) ==
    \E t \in {text} :
        \E i \in 1..(Len(t) - Len(part) + 1) : SubSeq(t, i, i + Len(part) - 1) = part

UpperCase == "ABCDEFGHIJKLMNOPQRSTUVWXYZ"

LowerCase == "abcdefghijklmnopqrstuvwxyz"

LowerChar(c) ==
    IF \E i \in 1..Len(UpperCase) : SubSeq(UpperCase, i, i) = c
    THEN LET i == CHOOSE i \in 1..Len(UpperCase) : SubSeq(UpperCase, i, i) = c
         IN  SubSeq(LowerCase, i, i)
    ELSE c

toLowerCase(text) ==
    LET lower[i \in 0..Len(text)] ==
            IF i = 0 THEN "" ELSE lower[i - 1] \o LowerChar(SubSeq(text, i, i))
    IN  lower[Len(text)]

SeqIncludes(seq, item) == \E i \in 1..Len(seq) : seq[i] = item

(***************************************************************************)
(* Trial: identifiers.                                                     *)
(***************************************************************************)
NextInternalId_Stuck(n) == n

\* the post-increment in getInternalId: this.internalIdIncrementor++
NextInternalId(n) == n + 1

getInternalId(n) == "e" \o toString36(n)

ExportName(n) == "export_" \o getInternalId(n)

(***************************************************************************)
(* Trial: the planning passes (phase 1 of run()).                          *)
(***************************************************************************)
NewModule(id) ==
    [id |-> id, originals |-> <<>>, imports |-> <<>>, sideEffects |-> <<>>, exports |-> <<>>]

NoAttempt == [module |-> 0, export |-> [importedFrom |-> "", name |-> ""], outcome |-> "none"]

RECURSIVE SeedFrom(_, _)
SeedFrom(n, count) ==
    IF count = 0 THEN <<>>
    ELSE <<NewModule(getInternalId(n))>> \o SeedFrom(NextInternalId(n), count - 1)

RECURSIVE CounterAfter(_, _)
CounterAfter(n, count) == IF count = 0 THEN n ELSE CounterAfter(NextInternalId(n), count - 1)

seedInitialModules ==
    /\ gpc = "seed"
    /\ \E count \in MinModules..MaxModules :
          /\ modules' = modules \o SeedFrom(internalIdIncrementor, count)
          /\ internalIdIncrementor' = CounterAfter(internalIdIncrementor, count)
    /\ gpc' = "originals"
    /\ gmod' = 1
    /\ gtimes' = -1
    /\ UNCHANGED <<entrypoints, lastAttempt>>
    /\ UNCHANGED <<analysis, fleetVars, classifyVars>>

\* for (const module of this.modules): entering the body draws random(lo, hi)
EnterModule(pass, lo, hi) ==
    /\ gpc = pass
    /\ gmod <= Len(modules)
    /\ gtimes = -1
    /\ \E times \in lo..hi : gtimes' = times
    /\ UNCHANGED <<modules, entrypoints, internalIdIncrementor, gpc, gmod, lastAttempt>>
    /\ UNCHANGED <<analysis, fleetVars, classifyVars>>

\* the inner repeat() is exhausted: the for-of moves on to the next module
LeaveModule ==
    /\ gpc \in {"originals", "reexports", "sideEffects"}
    /\ gmod <= Len(modules)
    /\ gtimes = 0
    /\ gmod' = gmod + 1
    /\ gtimes' = -1
    /\ UNCHANGED <<modules, entrypoints, internalIdIncrementor, gpc, lastAttempt>>
    /\ UNCHANGED <<analysis, fleetVars, classifyVars>>

\* the for-of is exhausted: run() calls the next pass
NextPass(from, to) ==
    /\ gpc = from
    /\ gmod > Len(modules)
    /\ gpc' = to
    /\ gmod' = 1
    /\ gtimes' = -1
    /\ lastAttempt' = NoAttempt
    /\ UNCHANGED <<modules, entrypoints, internalIdIncrementor>>
    /\ UNCHANGED <<analysis, fleetVars, classifyVars>>

addOriginalExports_Enter == EnterModule("originals", MinOriginals, MaxOriginals)

addOriginalExports ==
    /\ gpc = "originals"
    /\ gmod <= Len(modules)
    /\ gtimes > 0
    /\ LET exp == [importedFrom |-> modules[gmod].id,
                   name |-> ExportName(internalIdIncrementor)]
       IN  modules' = [modules EXCEPT
               ![gmod].originals = Append(@, exp.name),
               ![gmod].exports = Append(@, exp)]
    /\ internalIdIncrementor' = NextInternalId(internalIdIncrementor)
    /\ gtimes' = gtimes - 1
    /\ UNCHANGED <<entrypoints, gpc, gmod, lastAttempt>>
    /\ UNCHANGED <<analysis, fleetVars, classifyVars>>

addOriginalExports_Done == NextPass("originals", "reexports")

\* module.originals.includes(name)
isOriginal_Never(module, name) == FALSE

isOriginal(module, name) == SeqIncludes(module.originals, name)

ImportIndex(imports, name) ==
    IF \E k \in 1..Len(imports) : imports[k].name = name
    THEN CHOOSE k \in 1..Len(imports) :
            /\ imports[k].name = name
            /\ \A j \in 1..(k - 1) : imports[j].name # name
    ELSE 0

\* mutants of importIntoModule
importIntoModule_ByOwner(exported, targetModule, means) ==
    IF \E k \in 1..Len(targetModule.imports) :
          /\ targetModule.imports[k].name = exported.name
          /\ targetModule.imports[k].importedFrom = exported.importedFrom
    THEN [module |-> targetModule, name |-> exported.name]
    ELSE IF isOriginal(targetModule, exported.name)
    THEN [module |-> targetModule, name |-> exported.name]
    ELSE [module |-> [targetModule EXCEPT !.imports =
                        Append(@, [importedFrom |-> exported.importedFrom,
                                   name |-> exported.name, means |-> means])],
          name |-> exported.name]

importIntoModule_NoPush(exported, targetModule, means) ==
    [module |-> targetModule, name |-> exported.name]

importIntoModule_NoDedupe(exported, targetModule, means) ==
    IF isOriginal(targetModule, exported.name)
    THEN [module |-> targetModule, name |-> exported.name]
    ELSE [module |-> [targetModule EXCEPT !.imports =
                        Append(@, [importedFrom |-> exported.importedFrom,
                                   name |-> exported.name, means |-> means])],
          name |-> exported.name]

importIntoModule_Retag(exported, targetModule, means) ==
    LET k == ImportIndex(targetModule.imports, exported.name) IN
    IF k # 0
    THEN [module |-> [targetModule EXCEPT !.imports[k].means = means],
          name |-> targetModule.imports[k].name]
    ELSE IF isOriginal(targetModule, exported.name)
    THEN [module |-> targetModule, name |-> exported.name]
    ELSE [module |-> [targetModule EXCEPT !.imports =
                        Append(@, [importedFrom |-> exported.importedFrom,
                                   name |-> exported.name, means |-> means])],
          name |-> exported.name]

importIntoModule_FromTarget(exported, targetModule, means) ==
    LET k == ImportIndex(targetModule.imports, exported.name) IN
    IF k # 0
    THEN [module |-> targetModule, name |-> targetModule.imports[k].name]
    ELSE IF isOriginal(targetModule, exported.name)
    THEN [module |-> targetModule, name |-> exported.name]
    ELSE [module |-> [targetModule EXCEPT !.imports =
                        Append(@, [importedFrom |-> targetModule.id,
                                   name |-> exported.name, means |-> means])],
          name |-> exported.name]

\* importIntoModule(exported, targetModule): the module after the call and the
\* returned binding name; means is the outcome of pick("static", "dynamic")
importIntoModule(exported, targetModule, means) ==
    LET k == ImportIndex(targetModule.imports, exported.name) IN
    IF k # 0
    THEN [module |-> targetModule, name |-> targetModule.imports[k].name]
    ELSE IF isOriginal(targetModule, exported.name)
    THEN [module |-> targetModule, name |-> exported.name]
    ELSE [module |-> [targetModule EXCEPT !.imports =
                        Append(@, [importedFrom |-> exported.importedFrom,
                                   name |-> exported.name, means |-> means])],
          name |-> exported.name]

RECURSIVE AllExports(_)
AllExports(mods) ==
    IF mods = <<>> THEN <<>> ELSE Head(mods).exports \o AllExports(Tail(mods))

Means == {"static", "dynamic"}

\* what one attempt of addReExports / addSideEffects did to its module
AttemptOutcome(before, after) ==
    IF Len(after.imports) > Len(before.imports) THEN "imported" ELSE "existing"

addReExports_Enter == EnterModule("reexports", 0, MaxReExports)

addReExports ==
    /\ gpc = "reexports"
    /\ gmod <= Len(modules)
    /\ gtimes > 0
    /\ \E k \in 1..Len(AllExports(modules)), means \in Means :
          LET imp == AllExports(modules)[k]
              module == modules[gmod]
              r == importIntoModule(imp, module, means)
          IN  IF isOriginal(module, imp.name)
              THEN /\ modules' = modules
                   /\ lastAttempt' = [module |-> gmod, export |-> imp, outcome |-> "skipped"]
              ELSE /\ modules' = [modules EXCEPT ![gmod] =
                          [r.module EXCEPT !.exports =
                              Append(@, [importedFrom |-> module.id, name |-> r.name])]]
                   /\ lastAttempt' = [module |-> gmod, export |-> imp,
                                      outcome |-> AttemptOutcome(module, r.module)]
    /\ gtimes' = gtimes - 1
    /\ UNCHANGED <<entrypoints, internalIdIncrementor, gpc, gmod>>
    /\ UNCHANGED <<analysis, fleetVars, classifyVars>>

addReExports_Done == NextPass("reexports", "sideEffects")

addSideEffects_Enter == EnterModule("sideEffects", 0, MaxSideEffects)

addSideEffects ==
    /\ gpc = "sideEffects"
    /\ gmod <= Len(modules)
    /\ gtimes > 0
    /\ \E k \in 1..Len(AllExports(modules)), means \in Means :
          LET imp == AllExports(modules)[k]
              module == modules[gmod]
              r == importIntoModule(imp, module, means)
          IN  IF isOriginal(module, imp.name)
              THEN /\ modules' = modules
                   /\ lastAttempt' = [module |-> gmod, export |-> imp, outcome |-> "skipped"]
              ELSE /\ modules' = [modules EXCEPT ![gmod] =
                          [r.module EXCEPT !.sideEffects = Append(@, r.name)]]
                   /\ lastAttempt' = [module |-> gmod, export |-> imp,
                                      outcome |-> AttemptOutcome(module, r.module)]
    /\ gtimes' = gtimes - 1
    /\ UNCHANGED <<entrypoints, internalIdIncrementor, gpc, gmod>>
    /\ UNCHANGED <<analysis, fleetVars, classifyVars>>

addSideEffects_Done == NextPass("sideEffects", "entrypoints")

ModuleOrders(n) == {p \in [1..n -> 1..n] : \A i, j \in 1..n : p[i] = p[j] => i = j}

Min(a, b) == IF a < b THEN a ELSE b

\* sort() with a random comparator leaves this.modules in some order
chooseEntrypoints ==
    /\ gpc = "entrypoints"
    /\ \E p \in ModuleOrders(Len(modules)) :
       \E numEntrypoints \in 1..Min(MaxEntrypoints, Len(modules)) :
          LET shuffledModules == [i \in 1..Len(modules) |-> modules[p[i]]]
          IN  /\ modules' = shuffledModules
              /\ entrypoints' = SubSeq(shuffledModules, 1, numEntrypoints)
    /\ gpc' = "planned"
    /\ UNCHANGED <<internalIdIncrementor, gmod, gtimes, lastAttempt>>
    /\ UNCHANGED <<analysis, fleetVars, classifyVars>>

(***************************************************************************)
(* Trial.analyzeSideEffects, run with its call stack made explicit: a      *)
(* frame is a module being visited and the position reached in its         *)
(* sideEffects followed by its imports.                                    *)
(***************************************************************************)
NoAnalysis ==
    [stack |-> <<>>, traced |-> <<>>, effects |-> <<>>,
     calls |-> 0, nameCalls |-> 0, nameHits |-> 0]

\* this.modules.find((m) => m.id === id): its index, 0 when undefined
\* also finds the module that defines an export of that name
FindModule_ByName(id) ==
    IF \E k \in 1..Len(modules) : modules[k].id = id \/ isOriginal(modules[k], id)
    THEN CHOOSE k \in 1..Len(modules) :
            /\ modules[k].id = id \/ isOriginal(modules[k], id)
            /\ \A j \in 1..(k - 1) : ~(modules[j].id = id \/ isOriginal(modules[j], id))
    ELSE 0

FindModule(id) ==
    IF \E k \in 1..Len(modules) : modules[k].id = id
    THEN CHOOSE k \in 1..Len(modules) :
            /\ modules[k].id = id
            /\ \A j \in 1..(k - 1) : modules[j].id # id
    ELSE 0

AlreadyTraced_Never(traced, id) == FALSE

\* traced.includes(module.id)
AlreadyTraced(traced, id) == SeqIncludes(traced, id)

\* mutants of CallTargets
CallTargets_StaticOnly(module) ==
    [k \in 1..Len(module.sideEffects) |->
        [id |-> module.sideEffects[k], kind |-> "sideEffect"]]
    \o [k \in 1..Len(SelectSeq(module.imports, LAMBDA imp : imp.means = "static")) |->
        [id |-> SelectSeq(module.imports, LAMBDA imp : imp.means = "static")[k].importedFrom,
         kind |-> "import"]]

\* the recursive calls the body makes for a module, in order: one per side
\* effect (the name passed as an id), then one per import (its importedFrom)
CallTargets(module) ==
    [k \in 1..Len(module.sideEffects) |->
        [id |-> module.sideEffects[k], kind |-> "sideEffect"]]
    \o [k \in 1..Len(module.imports) |->
        [id |-> module.imports[k].importedFrom, kind |-> "import"]]

\* effects.add(name)
SetAdd(effects, name) == IF SeqIncludes(effects, name) THEN effects ELSE Append(effects, name)

\* a call analyzeSideEffects(id, traced, effects), up to traced.push(module.id)
EnterAnalysis(a, id, kind) ==
    LET k == FindModule(id)
        counted == [a EXCEPT !.calls = @ + 1,
                             !.nameCalls = IF kind = "sideEffect" THEN @ + 1 ELSE @]
    IN  IF k = 0 THEN counted
        ELSE IF AlreadyTraced(a.traced, modules[k].id) THEN counted
        ELSE [counted EXCEPT !.traced = Append(@, modules[k].id),
                             !.stack = Append(@, [module |-> k, next |-> 1]),
                             !.nameHits = IF kind = "sideEffect" THEN @ + 1 ELSE @]

\* the innermost call goes on: its next recursive call, or its return
StepAnalysis(a) ==
    LET depth == Len(a.stack)
        frame == a.stack[depth]
        targets == CallTargets(modules[frame.module])
    IN  IF frame.next > Len(targets)
        THEN [a EXCEPT !.stack = SubSeq(@, 1, depth - 1)]
        ELSE LET target == targets[frame.next]
             IN  EnterAnalysis(
                     [a EXCEPT !.stack[depth].next = @ + 1,
                               !.effects = IF target.kind = "sideEffect"
                                           THEN SetAdd(@, target.id) ELSE @],
                     target.id, target.kind)

\* the calls and returns are followed until the outermost call has returned
RECURSIVE RunAnalysis(_, _)
RunAnalysis(a, steps) ==
    IF a.stack = <<>> \/ steps = 0 THEN a
    ELSE CHOOSE r \in {RunAnalysis(b, steps - 1) : b \in {StepAnalysis(a)}} : TRUE

\* phase 4 of run(): this.analyzeSideEffects(unwrap(this.entrypoints[0]).id)
analyzeSideEffects ==
    /\ gpc = "planned"
    /\ analysis' = RunAnalysis(EnterAnalysis(NoAnalysis, entrypoints[1].id, "entry"),
                               MaxAnalyzeSteps)
    /\ gpc' = "analyzed"
    /\ UNCHANGED <<modules, entrypoints, internalIdIncrementor, gmod, gtimes, lastAttempt>>
    /\ UNCHANGED <<fleetVars, classifyVars>>

(***************************************************************************)
(* categorizeError.                                                        *)
(***************************************************************************)
categories == <<"duplicate", "cannot find module", "is not a function", "expected side effect">>

\* the value standing for "categorizeError threw"
NoCategory == "<throws>"

\* the first category, in order, that the text includes; 0 when none does
FirstCategory(text) ==
    LET matching == {k \in 1..Len(categories) : includes(text, categories[k])}
    IN  IF matching = {} THEN 0
        ELSE CHOOSE k \in matching : \A j \in matching : k <= j

categorizeError_CaseSensitive(realErr) ==
    LET found == {FirstCategory(text) : text \in {realErr}}
    IN  IF found = {0} THEN NoCategory ELSE categories[CHOOSE k \in found : TRUE]

\* falls back on the last category instead of throwing
categorizeError_CatchAll(realErr) ==
    LET found == {FirstCategory(text) : text \in {toLowerCase(realErr)}}
    IN  IF found = {0} THEN categories[Len(categories)]
        ELSE categories[CHOOSE k \in found : TRUE]

\* returns the last category that matches instead of the first
categorizeError_LastMatch(realErr) ==
    LET matching == UNION {{k \in 1..Len(categories) : includes(text, categories[k])} :
                              text \in {toLowerCase(realErr)}}
    IN  IF matching = {} THEN NoCategory
        ELSE categories[CHOOSE k \in matching : \A j \in matching : k >= j]

categorizeError(realErr) ==
    LET found == {FirstCategory(text) : text \in {toLowerCase(realErr)}}
    IN  IF found = {0} THEN NoCategory ELSE categories[CHOOSE k \in found : TRUE]

(***************************************************************************)
(* The fleet: grinderThread workers running Trial.run(), and the reporter. *)
(***************************************************************************)
Workers == 1..NumWorkers

Categories == {categories[k] : k \in 1..Len(categories)}

\* the ids of Trials: UUIDv7 strings (hexadecimal digits and dashes)
TrialId(n) == "0192f3a1-7c2e-7000-8000-00000000000" \o toString36(n)

\* what the collaborators can raise
BuildErrors == {"error: Cannot find module \"./e1\" from \"e0.ts\""}

ExecuteErrors == {"TypeError: export_e3 is not a function",
                  "SyntaxError: Duplicate export of 'export_e2'",
                  "ReferenceError: Cannot access 'export_e2' before initialization."}

\* results of analyzeSideEffects (a Set in insertion order) and observed traces
ExpectedEffects == {<<>>, <<"export_e3", "export_e2">>}

Traces == {<<>>, <<"export_e2">>, <<"export_e2", "export_e3">>}

\* lengths a reproduction document can have
DocLengths == {80 + 10 * k : k \in 0..MaxLengthSteps}

NoDoc == [trial |-> 0, length |-> 0]

NoTrial ==
    [id |-> 0, expectedSideEffects |-> <<>>, sideEffects |-> <<>>, traced |-> FALSE,
     err |-> "", raisedBy |-> "none", repro |-> NoDoc, category |-> "",
     currentRepro |-> NoDoc, outcome |-> "none"]

VerificationError(effect, id) ==
    "Expected side effect \"" \o effect \o "\" not found in traces for " \o TrialId(id) \o "."

\* every text an error of a trial can have, and its category
ErrorTexts ==
    BuildErrors \cup ExecuteErrors \cup
    UNION {{VerificationError(expected[k], id) : k \in DOMAIN expected, id \in 1..MaxTrials} :
              expected \in ExpectedEffects}

categoryOf == [text \in ErrorTexts |-> categorizeError(text)]

\* the for-of over expectedSideEffects: the first effect the trace lacks, or 0
FirstMissing(expected, sideEffects) ==
    IF \E k \in 1..Len(expected) : ~SeqIncludes(sideEffects, expected[k])
    THEN CHOOSE k \in 1..Len(expected) :
            /\ ~SeqIncludes(sideEffects, expected[k])
            /\ \A j \in 1..(k - 1) : SeqIncludes(sideEffects, expected[j])
    ELSE 0

keepsCurrent_Larger(currentRepro, repro) ==
    currentRepro # NoDoc /\ currentRepro.length > repro.length

keepsCurrent_OrEqual(currentRepro, repro) ==
    currentRepro # NoDoc /\ currentRepro.length <= repro.length

\* if (currentRepro.length < repro.length) return;  (a failed read skips it)
keepsCurrent(currentRepro, repro) ==
    currentRepro # NoDoc /\ currentRepro.length < repro.length

WriteRepro_IfSmaller(stored, repro) ==
    IF stored # NoDoc /\ stored.length < repro.length THEN stored ELSE repro

\* await Bun.write(join("./repros", category + ".md"), repro)
WriteRepro(stored, repro) == repro

Recording(w) == pc[w] \in {"read", "write"}

\* while (true) { const trial = new Trial(); await trial.run(); builds++; }
\* from the return of run() (or the first call) through phases 1 and 2 of the next
\* run(), which touch only the files of the new Trial, to its call of Bun.build
grinderThread(w) ==
    /\ pc[w] \in {"start", "returned"}
    /\ builds' = IF pc[w] = "returned" THEN builds + 1 ELSE builds
    /\ IF started < MaxTrials
       THEN /\ started' = started + 1
            /\ trial' = [trial EXCEPT ![w] = [NoTrial EXCEPT !.id = started + 1]]
            /\ pc' = [pc EXCEPT ![w] = "build"]
       ELSE /\ started' = started
            /\ trial' = [trial EXCEPT ![w] = NoTrial]
            /\ pc' = [pc EXCEPT ![w] = "halted"]
    /\ UNCHANGED <<repros, totalBuilds, offered, raced, completed>>
    /\ UNCHANGED <<genVars, classifyVars>>

\* phase 3: Bun.build resolved; phase 4 computes the expected effects, import() is called
run_Built(w) ==
    /\ pc[w] = "build"
    /\ \E expected \in ExpectedEffects :
          trial' = [trial EXCEPT ![w].expectedSideEffects = expected]
    /\ pc' = [pc EXCEPT ![w] = "execute"]
    /\ UNCHANGED <<repros, builds, totalBuilds, started, offered, raced, completed>>
    /\ UNCHANGED <<genVars, classifyVars>>

\* phase 3: Bun.build rejected; the await is outside the try, run() rejects,
\* and so does grinderThread()
run_BuildRaised(w) ==
    /\ pc[w] = "build"
    /\ \E text \in BuildErrors :
          trial' = [trial EXCEPT ![w].err = text, ![w].raisedBy = "build",
                                 ![w].outcome = "rejected"]
    /\ pc' = [pc EXCEPT ![w] = "dead"]
    /\ UNCHANGED <<repros, builds, totalBuilds, started, offered, raced, completed>>
    /\ UNCHANGED <<genVars, classifyVars>>

\* import() rejected inside the try: catch (err) calls generateReproduction
run_ExecuteRaised(w) ==
    /\ pc[w] = "execute"
    /\ \E text \in ExecuteErrors :
          trial' = [trial EXCEPT ![w].err = text, ![w].raisedBy = "execute"]
    /\ pc' = [pc EXCEPT ![w] = "reproduce"]
    /\ UNCHANGED <<repros, builds, totalBuilds, started, offered, raced, completed>>
    /\ UNCHANGED <<genVars, classifyVars>>

\* import() resolved: the trace is read and checked against the expected effects
run_Executed(w) ==
    /\ pc[w] = "execute"
    /\ \E sideEffects \in Traces :
          LET k == FirstMissing(trial[w].expectedSideEffects, sideEffects) IN
          IF k # 0
          THEN /\ trial' = [trial EXCEPT
                      ![w].sideEffects = sideEffects,
                      ![w].traced = TRUE,
                      ![w].err = VerificationError(trial[w].expectedSideEffects[k],
                                                   trial[w].id),
                      ![w].raisedBy = "verify"]
               /\ pc' = [pc EXCEPT ![w] = "reproduce"]
               /\ completed' = completed
          ELSE /\ trial' = [trial EXCEPT
                      ![w].sideEffects = sideEffects,
                      ![w].traced = TRUE,
                      ![w].outcome = "success"]
               /\ pc' = [pc EXCEPT ![w] = "returned"]
               /\ completed' = completed + 1
    /\ UNCHANGED <<repros, builds, totalBuilds, started, offered, raced>>
    /\ UNCHANGED <<genVars, classifyVars>>

\* generateReproduction resolved; categorizeError; the read of the stored document starts
run_Reproduced(w) ==
    /\ pc[w] = "reproduce"
    /\ \E length \in DocLengths :
          LET repro == [trial |-> trial[w].id, length |-> length]
              category == categoryOf[trial[w].err]
          IN  IF category = NoCategory
              THEN /\ trial' = [trial EXCEPT ![w].repro = repro,
                                             ![w].raisedBy = "categorizeError",
                                             ![w].outcome = "rejected"]
                   /\ pc' = [pc EXCEPT ![w] = "dead"]
                   /\ UNCHANGED <<offered, raced>>
              ELSE /\ trial' = [trial EXCEPT ![w].repro = repro, ![w].category = category]
                   /\ pc' = [pc EXCEPT ![w] = "read"]
                   /\ offered' = [offered EXCEPT ![category] = @ \cup {repro}]
                   /\ raced' = [raced EXCEPT ![category] =
                          @ \/ \E v \in Workers \ {w} :
                                  Recording(v) /\ trial[v].category = category]
    /\ UNCHANGED <<repros, builds, totalBuilds, started, completed>>
    /\ UNCHANGED <<genVars, classifyVars>>

\* Bun.file(...).text() settled: compare lengths, return or call Bun.write
run_ReadRepro(w) ==
    /\ pc[w] = "read"
    /\ LET currentRepro == repros[trial[w].category] IN
       IF keepsCurrent(currentRepro, trial[w].repro)
       THEN /\ trial' = [trial EXCEPT ![w].currentRepro = currentRepro,
                                      ![w].outcome = "discarded"]
            /\ pc' = [pc EXCEPT ![w] = "returned"]
            /\ completed' = completed + 1
       ELSE /\ trial' = [trial EXCEPT ![w].currentRepro = currentRepro]
            /\ pc' = [pc EXCEPT ![w] = "write"]
            /\ completed' = completed
    /\ UNCHANGED <<repros, builds, totalBuilds, started, offered, raced>>
    /\ UNCHANGED <<genVars, classifyVars>>

\* Bun.write resolved: the document is on disk and run() returns
run_WroteRepro(w) ==
    /\ pc[w] = "write"
    /\ repros' = [repros EXCEPT ![trial[w].category] = WriteRepro(@, trial[w].repro)]
    /\ trial' = [trial EXCEPT ![w].outcome = "written"]
    /\ pc' = [pc EXCEPT ![w] = "returned"]
    /\ completed' = completed + 1
    /\ UNCHANGED <<builds, totalBuilds, started, offered, raced>>
    /\ UNCHANGED <<genVars, classifyVars>>

addBuilds_Overwrite(total, thisTime) == thisTime

\* totalBuilds += thisTime
addBuilds(total, thisTime) == total + thisTime

\* one iteration of the reporting loop, up to its await wait(1000)
report ==
    /\ LET thisTime == builds IN totalBuilds' = addBuilds(totalBuilds, thisTime)
    /\ builds' = 0
    /\ UNCHANGED <<pc, trial, repros, started, offered, raced, completed>>
    /\ UNCHANGED <<genVars, classifyVars>>

GenIdle ==
    /\ modules = <<>>
    /\ entrypoints = <<>>
    /\ internalIdIncrementor = 0
    /\ gpc = "idle"
    /\ gmod = 1
    /\ gtimes = -1
    /\ lastAttempt = NoAttempt
    /\ analysis = NoAnalysis

ClassifyIdle ==
    /\ errFragments = <<>>
    /\ errCategory = ""

Init ==
    /\ pc = [w \in Workers |-> "start"]
    /\ trial = [w \in Workers |-> NoTrial]
    /\ repros = [c \in Categories |-> NoDoc]
    /\ builds = 0
    /\ totalBuilds = 0
    /\ started = 0
    /\ offered = [c \in Categories |-> {}]
    /\ raced = [c \in Categories |-> FALSE]
    /\ completed = 0
    /\ GenIdle
    /\ ClassifyIdle

Next ==
    \/ \E w \in Workers : grinderThread(w)
    \/ \E w \in Workers : run_Built(w)
    \/ \E w \in Workers : run_BuildRaised(w)
    \/ \E w \in Workers : run_ExecuteRaised(w)
    \/ \E w \in Workers : run_Executed(w)
    \/ \E w \in Workers : run_Reproduced(w)
    \/ \E w \in Workers : run_ReadRepro(w)
    \/ \E w \in Workers : run_WroteRepro(w)
    \/ report

Spec == Init /\ [][Next]_vars

FleetIdle ==
    /\ pc = <<>>
    /\ trial = <<>>
    /\ repros = <<>>
    /\ builds = 0
    /\ totalBuilds = 0
    /\ started = 0
    /\ offered = <<>>
    /\ raced = <<>>
    /\ completed = 0

\* new Trial(): the field initialisers
InitGen ==
    /\ modules = <<>>
    /\ entrypoints = <<>>
    /\ internalIdIncrementor = 0
    /\ gpc = "seed"
    /\ gmod = 1
    /\ gtimes = -1
    /\ lastAttempt = NoAttempt
    /\ analysis = NoAnalysis
    /\ FleetIdle
    /\ ClassifyIdle

NextGen ==
    \/ seedInitialModules
    \/ addOriginalExports_Enter
    \/ addOriginalExports
    \/ addOriginalExports_Done
    \/ addReExports_Enter
    \/ addReExports
    \/ addReExports_Done
    \/ addSideEffects_Enter
    \/ addSideEffects
    \/ addSideEffects_Done
    \/ LeaveModule
    \/ chooseEntrypoints
    \/ analyzeSideEffects

SpecGen == InitGen /\ [][NextGen]_vars

(***************************************************************************)
(* categorizeError on its own: the text of the error is put together from  *)
(* fragments, each holding at most one category in some spelling.          *)
(***************************************************************************)
Fragments ==
    <<[text |-> "Duplicate export; ", holds |-> 1],
      [text |-> "Cannot Find Module; ", holds |-> 2],
      [text |-> "x IS NOT a Function; ", holds |-> 3],
      [text |-> "Expected side effect; ", holds |-> 4],
      [text |-> "Before Initialization; ", holds |-> 0]>>

\* `${err}` of an error whose message is the fragments one after the other
RECURSIVE ErrorText(_)
ErrorText(fragments) ==
    IF fragments = <<>> THEN ""
    ELSE Fragments[Head(fragments)].text \o ErrorText(Tail(fragments))

InitClassify ==
    /\ \E n \in 1..MaxFragments : errFragments \in [1..n -> DOMAIN Fragments]
    /\ errCategory = "pending"
    /\ GenIdle
    /\ FleetIdle

\* const category = categorizeError(err)
classify ==
    /\ errCategory = "pending"
    /\ \E realErr \in {ErrorText(errFragments)} : errCategory' = categorizeError(realErr)
    /\ UNCHANGED errFragments
    /\ UNCHANGED <<genVars, fleetVars>>

NextClassify == classify

SpecClassify == InitClassify /\ [][NextClassify]_vars

(***************************************************************************)
(* Properties of the fleet (checked under Spec).                           *)
(***************************************************************************)
Lengths(docs) == {d.length : d \in docs}

MinLength(docs) == CHOOSE n \in Lengths(docs) : \A m \in Lengths(docs) : n <= m

\* no retain-if-smaller call for the category is between its read and its write
Settled(c) == \A w \in Workers : ~(Recording(w) /\ trial[w].category = c)

Active == {w \in Workers : pc[w] # "dead"}

\* C1: as long as the recordings of a category never overlapped, once they are
\* all finished the stored document is one of the documents offered for the
\* category and has the minimum length among them.
C1_SerializedKeepsShortest ==
    \A c \in Categories :
        (~raced[c] /\ Settled(c) /\ offered[c] # {}) =>
            /\ repros[c] \in offered[c]
            /\ repros[c].length = MinLength(offered[c])

\* a length-80 document that replaced a length-100 one and then survived the
\* offer of another length-100 document: both orders of arrival
C1_Witness ==
    \E c \in Categories : \E w1, w2 \in Workers :
        /\ ~raced[c] /\ Settled(c)
        /\ pc[w1] = "returned" /\ trial[w1].category = c
        /\ trial[w1].outcome = "written"
        /\ trial[w1].repro.length = 80 /\ trial[w1].currentRepro.length = 100
        /\ pc[w2] = "returned" /\ trial[w2].category = c
        /\ trial[w2].outcome = "discarded"
        /\ trial[w2].repro.length = 100 /\ trial[w2].currentRepro = trial[w1].repro
        /\ repros[c] = trial[w1].repro

\* C2: a worker that has read the stored document and decided to write does
\* write: when its Bun.write lands, the stored document of its category is its
\* own document, whatever another worker stored in the meantime (the stored
\* document is the last write).
C2_LastWriteWins ==
    [][\A w \in Workers :
          (pc[w] = "write" /\ pc'[w] # "write") =>
              repros'[trial[w].category] = trial[w].repro]_vars

\* two workers read the same prior document, both wrote, and the document left
\* stored is strictly longer than the other one offered
C2_Witness ==
    \E c \in Categories : \E w1, w2 \in Workers :
        /\ w1 # w2
        /\ pc[w1] = "returned" /\ pc[w2] = "returned"
        /\ trial[w1].category = c /\ trial[w2].category = c
        /\ trial[w1].outcome = "written" /\ trial[w2].outcome = "written"
        /\ trial[w1].currentRepro # NoDoc
        /\ trial[w1].currentRepro = trial[w2].currentRepro
        /\ repros[c] = trial[w2].repro
        /\ trial[w1].repro \in offered[c]
        /\ trial[w1].repro.length < repros[c].length

\* C3: a trial whose build raised is in Recording (its error caught, to be
\* classified and offered to the archive) or has returned from it; its error
\* never escapes run().
C3_BuildErrorRecorded ==
    \A w \in Workers :
        trial[w].raisedBy = "build" =>
            pc[w] \in {"reproduce", "read", "write", "returned"}

\* the error texts that match none of the four categories
Uncategorized ==
    {text \in ErrorTexts :
        \A k \in 1..Len(categories) : ~includes(toLowerCase(text), categories[k])}

\* C4: when the error text of a trial matches no category, the step that
\* classifies it terminates its worker and only its worker (the number of
\* active workers drops by one, every other worker stays where it is), writes
\* nothing, the trial has no document in any category, and a terminated worker
\* never runs again.
C4_UnknownCategoryKillsOneWorker ==
    [][\A w \in Workers :
          /\ (pc[w] = "reproduce" /\ pc'[w] # "reproduce"
                /\ trial[w].err \in Uncategorized) =>
                /\ pc'[w] = "dead"
                /\ \A v \in Workers \ {w} : pc'[v] = pc[v]
                /\ Cardinality(Active') = Cardinality(Active) - 1
                /\ repros' = repros /\ offered' = offered
                /\ \A c \in Categories :
                      /\ repros[c].trial # trial[w].id
                      /\ \A d \in offered[c] : d.trial # trial[w].id
          /\ pc[w] = "dead" => pc'[w] = "dead"]_vars

\* a worker died of an unclassifiable error while the other went on to a later trial
C4_Witness ==
    \E w, v \in Workers :
        /\ pc[w] = "dead" /\ trial[w].raisedBy = "categorizeError"
        /\ trial[w].err \in Uncategorized
        /\ pc[v] \notin {"dead", "halted", "start"}
        /\ trial[v].id > trial[w].id
        /\ \A c \in Categories : repros[c].trial # trial[w].id

\* C5: every trial whose run() returned (success, document written, document
\* discarded) is counted once, at the latest when its worker resumes, and a
\* terminated worker was terminated by a classification failure.
C5_OnlyClassificationFailureKills ==
    /\ builds + totalBuilds + Cardinality({w \in Workers : pc[w] = "returned"}) = completed
    /\ \A w \in Workers : pc[w] = "dead" => trial[w].raisedBy = "categorizeError"

Missing(w) == FirstMissing(trial[w].expectedSideEffects, trial[w].sideEffects)

DocumentsOf(id) ==
    {d \in UNION {offered[c] : c \in Categories} : d.trial = id}
    \cup {repros[c] : c \in {x \in Categories : repros[x].trial = id}}

\* C6: once the trace of a trial has been read, if it lacks an expected effect
\* the trial's error is the verification error naming the first such effect, its
\* category is "expected side effect", the trial is in Recording or has returned
\* from it, and from the read on its document is among those offered for that
\* category; if it lacks none the trial has returned and has no document.
C6_MissingEffectRecorded ==
    \A w \in Workers :
        trial[w].traced =>
            IF Missing(w) # 0
            THEN /\ trial[w].err =
                        VerificationError(trial[w].expectedSideEffects[Missing(w)], trial[w].id)
                 /\ trial[w].raisedBy = "verify"
                 /\ pc[w] \in {"reproduce", "read", "write", "returned"}
                 /\ pc[w] # "reproduce" =>
                        /\ trial[w].category = "expected side effect"
                        /\ trial[w].repro \in offered["expected side effect"]
            ELSE /\ pc[w] = "returned"
                 /\ trial[w].outcome = "success"
                 /\ DocumentsOf(trial[w].id) = {}

\* a trial whose trace lacked an expected effect stored its document
C6_Witness ==
    \E w \in Workers :
        /\ trial[w].traced /\ Missing(w) # 0
        /\ pc[w] = "returned" /\ trial[w].outcome = "written"
        /\ repros["expected side effect"] = trial[w].repro

(***************************************************************************)
(* Properties of the generator (checked under SpecGen).                    *)
(***************************************************************************)
ModuleIndexes == 1..Len(modules)

ImportNames(module) == {module.imports[k].name : k \in 1..Len(module.imports)}

OriginalNames(module) == {module.originals[k] : k \in 1..Len(module.originals)}

\* C7, as claimed: once the passes are over no two export entries, of the same
\* or of different modules, have the same name.
C7_ExportEntriesUnique ==
    gpc = "planned" =>
        \A i, j \in ModuleIndexes :
            \A a \in 1..Len(modules[i].exports), b \in 1..Len(modules[j].exports) :
                (<<i, a>> # <<j, b>>) =>
                    modules[i].exports[a].name # modules[j].exports[b].name

\* C7, amended: no two original exports, of the same or of different modules,
\* have the same name, and every export entry names an original export.
C7_OriginalNamesUnique ==
    /\ \A i, j \in ModuleIndexes :
          \A a \in 1..Len(modules[i].originals), b \in 1..Len(modules[j].originals) :
              (<<i, a>> # <<j, b>>) => modules[i].originals[a] # modules[j].originals[b]
    /\ \A i \in ModuleIndexes : \A a \in 1..Len(modules[i].exports) :
          \E j \in ModuleIndexes : modules[i].exports[a].name \in OriginalNames(modules[j])

\* a planned trial in which a module re-exports an export of another module
C7_Witness ==
    /\ gpc = "planned"
    /\ \E i, j \in ModuleIndexes :
          /\ i # j
          /\ \E a \in 1..Len(modules[i].exports) :
                modules[i].exports[a].name \in OriginalNames(modules[j])

\* C8: no import binding of a module has the name of an original export of
\* that module.
C8_NoImportOfOwnOriginal ==
    \A i \in ModuleIndexes :
        \A k \in 1..Len(modules[i].imports) :
            ~SeqIncludes(modules[i].originals, modules[i].imports[k].name)

\* a module that holds imports picked one of its own originals and skipped it
C8_Witness ==
    /\ lastAttempt.outcome = "skipped"
    /\ modules[lastAttempt.module].imports # <<>>
    /\ lastAttempt.export.name \in OriginalNames(modules[lastAttempt.module])

\* C9: no two import bindings of a module have the same name.
C9_NoDuplicateImport ==
    \A i \in ModuleIndexes :
        \A k1, k2 \in 1..Len(modules[i].imports) :
            k1 # k2 => modules[i].imports[k1].name # modules[i].imports[k2].name

\* a module picked, through the re-export of another owner, a name it imports
C9_Witness ==
    /\ lastAttempt.outcome = "existing"
    /\ \E k \in 1..Len(modules[lastAttempt.module].imports) :
          /\ modules[lastAttempt.module].imports[k].name = lastAttempt.export.name
          /\ modules[lastAttempt.module].imports[k].importedFrom
                # lastAttempt.export.importedFrom

\* C10: every side effect of a module, and the name of every export entry of
\* it, is one of its original exports or the name of one of its imports.
C10_NamesAreBound ==
    \A i \in ModuleIndexes :
        /\ \A k \in 1..Len(modules[i].sideEffects) :
              modules[i].sideEffects[k] \in
                  OriginalNames(modules[i]) \cup ImportNames(modules[i])
        /\ \A k \in 1..Len(modules[i].exports) :
              modules[i].exports[k].name \in
                  OriginalNames(modules[i]) \cup ImportNames(modules[i])

\* a module that re-exports one import and calls one as a side effect
C10_Witness ==
    \E i \in ModuleIndexes :
        /\ \E k \in 1..Len(modules[i].sideEffects) :
              modules[i].sideEffects[k] \in ImportNames(modules[i])
        /\ \E k \in 1..Len(modules[i].exports) :
              /\ modules[i].exports[k].name \in ImportNames(modules[i])
              /\ modules[i].exports[k].importedFrom = modules[i].id

\* C11: at every point of the passes that call importIntoModule, for every
\* export of the trial and every module, a second call with the same export
\* on the module the first call left returns the same name and leaves the
\* imports (length, bindings, modes) as the first call left them, whatever
\* pick("static", "dynamic") gives in either call.
C11_ImportIdempotent ==
    gpc \in {"reexports", "sideEffects"} =>
        \A exported \in {AllExports(modules)[k] : k \in 1..Len(AllExports(modules))} :
            \A i \in ModuleIndexes : \A means1, means2 \in Means :
                \A first \in {importIntoModule(exported, modules[i], means1)} :
                    \A second \in {importIntoModule(exported, first.module, means2)} :
                        /\ second.name = first.name
                        /\ second.module.imports = first.module.imports

\* an attempt picked the very export (same name, same owner) its module
\* had imported by an earlier attempt
C11_Witness ==
    /\ lastAttempt.outcome = "existing"
    /\ \E k \in 1..Len(modules[lastAttempt.module].imports) :
          /\ modules[lastAttempt.module].imports[k].name = lastAttempt.export.name
          /\ modules[lastAttempt.module].imports[k].importedFrom
                = lastAttempt.export.importedFrom

ToSet(seq) == {seq[k] : k \in 1..Len(seq)}

NoRepeats(seq) == \A k1, k2 \in 1..Len(seq) : k1 # k2 => seq[k1] # seq[k2]

ImportsFrom(i, j) ==
    \E k \in 1..Len(modules[i].imports) : modules[i].imports[k].importedFrom = modules[j].id

\* C12: analyzeSideEffects has returned within the steps it is followed for;
\* traced holds no module id twice (no module is entered twice) and at most
\* one id per module, and effects holds only side effects of the trial.
C12_AnalysisTerminates ==
    gpc = "analyzed" =>
        /\ analysis.stack = <<>>
        /\ NoRepeats(analysis.traced)
        /\ Len(analysis.traced) <= Len(modules)
        /\ ToSet(analysis.effects) \subseteq
              UNION {ToSet(modules[i].sideEffects) : i \in ModuleIndexes}

\* the analysis went round an import cycle: two modules importing from each other
C12_Witness ==
    /\ gpc = "analyzed"
    /\ \E i, j \in ModuleIndexes :
          /\ i # j
          /\ ImportsFrom(i, j) /\ ImportsFrom(j, i)
          /\ modules[i].id \in ToSet(analysis.traced)
          /\ modules[j].id \in ToSet(analysis.traced)

ImportedIds(ids) ==
    UNION {{modules[i].imports[k].importedFrom : k \in 1..Len(modules[i].imports)} :
              i \in {x \in ModuleIndexes : modules[x].id \in ids}}

\* the module ids reachable from ids in at most n import bindings
RECURSIVE ReachableIds(_, _)
ReachableIds(ids, n) ==
    IF n = 0 THEN ids
    ELSE UNION {ReachableIds(next, n - 1) : next \in {ids \cup ImportedIds(ids)}}

Entrypoint == entrypoints[1].id

ReachableModules ==
    {i \in ModuleIndexes : modules[i].id \in ReachableIds({Entrypoint}, Len(modules))}

\* C15: the effects analyzeSideEffects returned for the first entrypoint are
\* the side effects of the modules reachable from it through import
\* bindings, static or dynamic, the entrypoint included.
C15_EffectsOfReachableModules ==
    gpc = "analyzed" =>
        ToSet(analysis.effects) =
            UNION {ToSet(modules[i].sideEffects) : i \in ReachableModules}

\* an effect expected only because of a dynamic import of the entrypoint
C15_Witness ==
    /\ gpc = "analyzed"
    /\ \E j \in ModuleIndexes : \E k \in 1..Len(entrypoints[1].imports) :
          /\ entrypoints[1].imports[k].means = "dynamic"
          /\ entrypoints[1].imports[k].importedFrom = modules[j].id
          /\ \A k2 \in 1..Len(entrypoints[1].imports) :
                entrypoints[1].imports[k2].means = "dynamic"
          /\ \E e \in ToSet(modules[j].sideEffects) :
                /\ e \notin ToSet(entrypoints[1].sideEffects)
                /\ e \in ToSet(analysis.effects)

ModuleIds == {modules[i].id : i \in ModuleIndexes}

NamesOf(module) ==
    OriginalNames(module) \cup ImportNames(module) \cup ToSet(module.sideEffects)
    \cup {module.exports[k].name : k \in 1..Len(module.exports)}

\* C16: the ids of the modules are pairwise distinct, no original, export,
\* import or side effect of a module has the id of a module as its name, and
\* no call of analyzeSideEffects on a side-effect name found a module.
C16_NamesAreNotModuleIds ==
    /\ \A i, j \in ModuleIndexes : i # j => modules[i].id # modules[j].id
    /\ \A i \in ModuleIndexes : NamesOf(modules[i]) \cap ModuleIds = {}
    /\ analysis.nameHits = 0

\* the analysis did call itself on a side-effect name
C16_Witness ==
    /\ gpc = "analyzed"
    /\ analysis.nameCalls > 0
    /\ analysis.calls > analysis.nameCalls + 1

IsPrefix(a, b) == Len(a) <= Len(b) /\ SubSeq(b, 1, Len(a)) = a

\* C17: in every step of the generator the imports of every module, found
\* again by its id, start with the imports it had (nothing removed,
\* reordered or changed, mode and owner included), and a step of the
\* re-export or side-effect pass leaves every module but the one it works on
\* as it was.
C17_ImportsAppendOnly ==
    [][\A i \in ModuleIndexes :
          /\ \E j \in 1..Len(modules') :
                /\ modules'[j].id = modules[i].id
                /\ IsPrefix(modules[i].imports, modules'[j].imports)
          /\ (gpc \in {"reexports", "sideEffects"} /\ i # gmod) =>
                modules'[i] = modules[i]]_vars

\* an attempt appended a second binding to the imports of its module
C17_Witness ==
    /\ lastAttempt.outcome = "imported"
    /\ Len(modules[lastAttempt.module].imports) >= 2
    /\ \E i \in ModuleIndexes : i # lastAttempt.module /\ modules[i].imports # <<>>

\* C19: no import binding of a module has that module as its owner.
C19_NoSelfImport ==
    \A i \in ModuleIndexes :
        \A k \in 1..Len(modules[i].imports) :
            modules[i].imports[k].importedFrom # modules[i].id

\* an attempt picked an export entry of its own module (one of its re-exports)
C19_Witness ==
    /\ lastAttempt.outcome = "existing"
    /\ lastAttempt.export.importedFrom = modules[lastAttempt.module].id
    /\ lastAttempt.export.name \notin OriginalNames(modules[lastAttempt.module])

\* C20: the owner of every import binding is a module of the trial, and the
\* exports of that module hold an entry with the name of the binding.
C20_ImportsAreExported ==
    \A i \in ModuleIndexes :
        \A k \in 1..Len(modules[i].imports) :
            \E j \in ModuleIndexes :
                /\ modules[j].id = modules[i].imports[k].importedFrom
                /\ \E a \in 1..Len(modules[j].exports) :
                      modules[j].exports[a].name = modules[i].imports[k].name

\* a binding whose owner re-exports the name without defining it
C20_Witness ==
    \E i, j \in ModuleIndexes :
        \E k \in 1..Len(modules[i].imports) :
            /\ modules[j].id = modules[i].imports[k].importedFrom
            /\ modules[i].imports[k].name \notin OriginalNames(modules[j])
            /\ modules[i].imports[k].name \in ImportNames(modules[j])

\* the categories the fragments of the text hold, by their place in categories
Held == {Fragments[errFragments[k]].holds : k \in 1..Len(errFragments)} \ {0}

\* C13: the classifier returns the category that comes first in the order
\* duplicate, cannot find module, is not a function, expected side effect
\* among those the text holds in any spelling of upper and lower case,
\* wherever in the text they stand, and throws when the text holds none.
C13_FirstCategoryOrThrow ==
    errCategory \notin {"", "pending"} =>
        IF Held = {} THEN errCategory = NoCategory
        ELSE \E k \in Held : /\ \A j \in Held : k <= j
                             /\ errCategory = categories[k]

\* a text that holds a later category before an earlier one, in mixed case
C13_Witness ==
    /\ Len(errFragments) >= 2
    /\ Fragments[errFragments[1]].holds = 3
    /\ Fragments[errFragments[2]].holds = 2
    /\ errCategory = "cannot find module"

\* the workers whose run() has returned and that have not yet resumed to count it
Uncounted == {w \in Workers : pc[w] = "returned"}

\* C14: whatever the order of the steps of the workers and of the reporter,
\* totalBuilds plus builds is the number of trials whose run() returned, less
\* those whose worker has not yet resumed to count them: the reporter loses
\* no increment and counts none twice.
C14_NoIncrementLost ==
    totalBuilds + builds = completed - Cardinality(Uncounted)

\* the reporter has run between two increments, and a third is about to come
C14_Witness ==
    /\ totalBuilds >= 1
    /\ builds >= 1
    /\ Uncounted # {}

\* C18: the step of a worker that read the stored document of its category
\* keeps it, and returns, exactly when there is one and it is strictly
\* shorter than the new one; otherwise it goes on to write, and its write
\* leaves the new document in store (of the other categories nothing changes).
C18_RetainIfSmallerStep ==
    [][\A w \in Workers :
          /\ (pc[w] = "read" /\ pc'[w] # "read") =>
                /\ repros' = repros
                /\ IF /\ repros[trial[w].category] # NoDoc
                      /\ repros[trial[w].category].length < trial[w].repro.length
                   THEN pc'[w] = "returned" /\ trial'[w].outcome = "discarded"
                   ELSE pc'[w] = "write"
          /\ (pc[w] = "write" /\ pc'[w] # "write") =>
                /\ pc'[w] = "returned"
                /\ repros'[trial[w].category] = trial[w].repro
                /\ \A c \in Categories \ {trial[w].category} : repros'[c] = repros[c]
      ]_vars

\* a tie: the new document replaced one of another trial of the same length
C18_Witness ==
    \E w \in Workers :
        /\ trial[w].outcome = "written"
        /\ trial[w].currentRepro # NoDoc
        /\ trial[w].currentRepro.trial # trial[w].id
        /\ trial[w].currentRepro.length = trial[w].repro.length
        /\ repros[trial[w].category] = trial[w].repro

====
